---- MODULE Spec2Model ----
(***************************************************************************)
(* Model of the block validator in src/src/main.rs (main, lines 109-176):  *)
(* one pass over the transactions of a fetched block that recomputes the   *)
(* transactions root of the header and the receipts root of every Script   *)
(* transaction.                                                            *)
(*                                                                         *)
(* The codec (fuel_tx / fuel_types::canonical), the schema-to-Receipt      *)
(* conversion (fuel_core_client) and the Merkle calculator (fuel_merkle)   *)
(* are library code.  They are modelled by what main relies on:            *)
(*   - from_bytes is partial (garbage does not parse) and not injective    *)
(*     (bytes after the encoded transaction are not consumed);             *)
(*   - to_bytes is total and yields the canonical bytes;                   *)
(*   - try_into on a schema receipt is partial (a field its receipt type   *)
(*     needs may be missing) and not injective (fields the receipt type    *)
(*     does not use are dropped);                                          *)
(*   - the root is the binary Merkle tree over the pushed leaves, with a   *)
(*     hash that has no collisions (digests are the hash terms).           *)
(***************************************************************************)
EXTENDS Integers, Sequences, FiniteSets, TLC

\* Largest number of transactions in the fetched block.
MaxTx == 2

\* Largest number of receipts in a transaction status.
MaxReceipts == 1

----------------------------------------------------------------------------
(* Sequences *)

SeqsUpTo(S, n) == UNION { [1..k -> S] : k \in 0..n }

----------------------------------------------------------------------------
(* fuel_merkle::binary::root_calculator::MerkleRootCalculator.             *)
(* The calculator is modelled by the sequence of leaves pushed so far.     *)

\* MerkleRootCalculator::new(): no leaf.
NewCalculator == << >>

\* Push that puts the new leaf before the others.
Push_Front(calc, data) == << data >> \o calc

\* MerkleRootCalculator::push(data): one more leaf, after the others.
Push(calc, data) == Append(calc, data)

\* Largest power of two strictly below n (n >= 2).
RECURSIVE SplitPoint(_, _)
SplitPoint(n, k) == IF 2 * k < n THEN SplitPoint(n, 2 * k) ELSE k

\* Digest of the empty tree.
EmptySum == << "empty" >>

\* MerkleRootCalculator::root(): leaf = H(0x00 || data),
\* node = H(0x01 || left || right), left subtree the largest full one.
RECURSIVE Root(_)
Root(calc) ==
    IF Len(calc) = 0 THEN EmptySum
    ELSE IF Len(calc) = 1 THEN << "leaf", calc[1] >>
    ELSE LET k == SplitPoint(Len(calc), 1)
         IN  << "node", Root(SubSeq(calc, 1, k)),
                        Root(SubSeq(calc, k + 1, Len(calc))) >>

----------------------------------------------------------------------------
(* Receipts *)

\* Receipts as the client returns them (schema::tx::Receipt).
\* 0: a field of its receipt type is missing; 1 and 3: the same receipt,
\* differing in a field its receipt type does not use; 2: another receipt.
SchemaReceipts == {0, 1, 2, 3}

\* fuel_tx::Receipt values.
Receipts == {"ra", "rb"}

ConversionFails(r) == r = 0

\* Receipt::try_from(schema receipt), where it succeeds.
TryInto(r) == IF r = 2 THEN "rb" ELSE "ra"

\* Receipt::to_bytes: one encoding per receipt.
ReceiptToBytes(receipt) == IF receipt = "ra" THEN 10 ELSE 20

\* Digests a Script body can embed as its receipts root.
ReceiptRoots ==
    { Root(s) : s \in SeqsUpTo({ReceiptToBytes(r) : r \in Receipts}, MaxReceipts) }

----------------------------------------------------------------------------
(* Transactions *)

\* Raw payloads.  kind "Garbage" does not parse; trailing = 1 is a payload
\* with a byte after the encoded transaction.
ScriptPayloads ==
    [kind : {"Script"}, receipts_root : ReceiptRoots, trailing : {0, 1}]

OtherPayloads ==
    [kind : {"Create", "Mint"}, receipts_root : {EmptySum}, trailing : {0, 1}]

GarbagePayloads ==
    [kind : {"Garbage"}, receipts_root : {EmptySum}, trailing : {0}]

Payloads == ScriptPayloads \cup OtherPayloads \cup GarbagePayloads

ParseFails(raw_payload) == raw_payload.kind = "Garbage"

\* Transaction::from_bytes, where it succeeds.
FromBytes(raw_payload) ==
    [kind |-> raw_payload.kind, receipts_root |-> raw_payload.receipts_root]

\* Transaction::to_bytes: the canonical bytes of a decoded transaction.
ToBytes(tx_body) ==
    [kind |-> tx_body.kind, receipts_root |-> tx_body.receipts_root,
     trailing |-> 0]

\* Option<TransactionStatus>: "None" is the absent status.
ReceiptStatuses == {"SuccessStatus", "FailureStatus"}

Statuses ==
    [kind : ReceiptStatuses, receipts : SeqsUpTo(SchemaReceipts, MaxReceipts)]
    \cup [kind : {"SubmittedStatus", "None"}, receipts : {<< >>}]

\* OpaqueTransactionWithStatusAndId without its id.
TxData == [raw_payload : Payloads, status : Statuses]

TxSeqs(n) ==
    { [k \in 1..n |-> [id |-> k,
                       raw_payload |-> f[k].raw_payload,
                       status |-> f[k].status]] : f \in [1..n -> TxData] }

\* Encodings of the transactions of txs at the positions in S that parse.
RECURSIVE EncodingsAt(_, _, _)
EncodingsAt(txs, S, k) ==
    IF k > Len(txs) THEN << >>
    ELSE IF k \in S /\ ~ParseFails(txs[k].raw_payload)
         THEN << ToBytes(FromBytes(txs[k].raw_payload)) >>
              \o EncodingsAt(txs, S, k + 1)
         ELSE EncodingsAt(txs, S, k + 1)

\* Header roots: the root over any selection of the block's transactions.
HeaderRoots(txs) ==
    { Root(EncodingsAt(txs, S, 1)) : S \in SUBSET (1..Len(txs)) }

----------------------------------------------------------------------------
(* State *)

VARIABLES
    block,                   \* the block main validates (lines 99-105)
    original,                \* the block as the node committed it
    pc,                      \* position of main
    i,                       \* index of the transaction the loop is at
    calculated_tx_root,      \* block-level calculator (line 111)
    receipt_root,            \* receipts root of the Script body (line 138)
    calculated_receipt_root, \* transaction-level calculator (line 139)
    j,                       \* index of the receipt the inner loop is at
    result                   \* what main returns

vars == << block, original, pc, i, calculated_tx_root, receipt_root,
           calculated_receipt_root, j, result >>

NoResult == [kind |-> "none", tx_id |-> 0]

Init ==
    /\ \E n \in 0..MaxTx : \E txs \in TxSeqs(n) : \E root \in HeaderRoots(txs) :
          block = [transactions_root |-> root, transactions |-> txs]
    /\ original = block
    /\ pc = "tx_loop"
    /\ i = 1
    /\ calculated_tx_root = NewCalculator
    /\ receipt_root = EmptySum
    /\ calculated_receipt_root = NewCalculator
    /\ j = 1
    /\ result = NoResult

InLoop == pc = "tx_loop" /\ i <= Len(block.transactions)

tx == block.transactions[i]

\* HasReceipts with the Failure arm of the match missing.
HasReceipts_SuccessOnly(status) == status.kind = "SuccessStatus"

HasReceipts(status) == status.kind \in ReceiptStatuses

\* Lines 116-126, `_ => continue`: the transaction is left.
SkipTx ==
    /\ InLoop
    /\ ~HasReceipts(tx.status)
    /\ i' = i + 1
    /\ UNCHANGED << block, original, pc, calculated_tx_root, receipt_root,
                    calculated_receipt_root, j, result >>

\* Lines 129-131: the payload does not parse, main returns the error.
ParseError ==
    /\ InLoop
    /\ HasReceipts(tx.status)
    /\ ParseFails(tx.raw_payload)
    /\ result' = [kind |-> "ParseError", tx_id |-> tx.id]
    /\ pc' = "done"
    /\ UNCHANGED << block, original, i, calculated_tx_root, receipt_root,
                    calculated_receipt_root, j >>

\* PushTx with one receipt calculator for the whole block, created before
\* the loop instead of per transaction.
PushTx_SharedCalculator ==
    /\ pc = "tx_loop" /\ i <= Len(block.transactions)
    /\ block.transactions[i].status.kind \in ReceiptStatuses
    /\ ~ParseFails(block.transactions[i].raw_payload)
    /\ LET tx_body == FromBytes(block.transactions[i].raw_payload) IN
          /\ calculated_tx_root' = Push(calculated_tx_root, ToBytes(tx_body))
          /\ IF tx_body.kind = "Script"
             THEN /\ receipt_root' = tx_body.receipts_root
                  /\ j' = 1
                  /\ pc' = "receipt_loop"
                  /\ i' = i
             ELSE /\ i' = i + 1
                  /\ UNCHANGED << receipt_root, j, pc >>
    /\ UNCHANGED << block, original, result, calculated_receipt_root >>

\* Lines 129-139: parse, push the encoding, and for a Script body read its
\* receipts root and start a calculator for its receipts.
PushTx ==
    /\ InLoop
    /\ HasReceipts(tx.status)
    /\ ~ParseFails(tx.raw_payload)
    /\ LET tx_body == FromBytes(tx.raw_payload) IN
          /\ calculated_tx_root' = Push(calculated_tx_root, ToBytes(tx_body))
          /\ IF tx_body.kind = "Script"
             THEN /\ receipt_root' = tx_body.receipts_root
                  /\ calculated_receipt_root' = NewCalculator
                  /\ j' = 1
                  /\ pc' = "receipt_loop"
                  /\ i' = i
             ELSE /\ i' = i + 1
                  /\ UNCHANGED << receipt_root, calculated_receipt_root, j, pc >>
    /\ UNCHANGED << block, original, result >>

InReceiptLoop == pc = "receipt_loop" /\ j <= Len(tx.status.receipts)

\* Line 142: the receipt does not convert, main returns the error.
ConversionError ==
    /\ InReceiptLoop
    /\ ConversionFails(tx.status.receipts[j])
    /\ result' = [kind |-> "ConversionError", tx_id |-> tx.id]
    /\ pc' = "done"
    /\ UNCHANGED << block, original, i, calculated_tx_root, receipt_root,
                    calculated_receipt_root, j >>

\* Lines 142-143: convert the receipt and push its encoding.
PushReceipt ==
    /\ InReceiptLoop
    /\ ~ConversionFails(tx.status.receipts[j])
    /\ calculated_receipt_root' =
          Push(calculated_receipt_root,
               ReceiptToBytes(TryInto(tx.status.receipts[j])))
    /\ j' = j + 1
    /\ UNCHANGED << block, original, pc, i, calculated_tx_root, receipt_root, result >>

\* CheckReceiptRoot that only prints the mismatch: no error is returned.
CheckReceiptRoot_PrintOnly ==
    /\ pc = "receipt_loop"
    /\ j > Len(block.transactions[i].status.receipts)
    /\ pc' = "tx_loop"
    /\ i' = i + 1
    /\ UNCHANGED << block, original, calculated_tx_root, receipt_root,
                    calculated_receipt_root, j, result >>

\* CheckReceiptRoot without the early return: the mismatch is recorded and
\* the loop goes on.
CheckReceiptRoot_NoReturn ==
    /\ pc = "receipt_loop"
    /\ j > Len(tx.status.receipts)
    /\ result' = IF receipt_root # Root(calculated_receipt_root)
                 THEN [kind |-> "ReceiptRootMismatch", tx_id |-> tx.id]
                 ELSE result
    /\ pc' = "tx_loop"
    /\ i' = i + 1
    /\ UNCHANGED << block, original, calculated_tx_root, receipt_root,
                    calculated_receipt_root, j >>

\* Lines 146-158: compare the roots; a mismatch returns the error.
CheckReceiptRoot ==
    /\ pc = "receipt_loop"
    /\ j > Len(tx.status.receipts)
    /\ IF receipt_root # Root(calculated_receipt_root)
       THEN /\ result' = [kind |-> "ReceiptRootMismatch", tx_id |-> tx.id]
            /\ pc' = "done"
            /\ i' = i
       ELSE /\ pc' = "tx_loop"
            /\ i' = i + 1
            /\ UNCHANGED result
    /\ UNCHANGED << block, original, calculated_tx_root, receipt_root,
                    calculated_receipt_root, j >>

\* Lines 161-176: after the loop, compare the block-level root.
CheckTxRoot ==
    /\ pc = "tx_loop"
    /\ i > Len(block.transactions)
    /\ result' = IF block.transactions_root # Root(calculated_tx_root)
                 THEN [kind |-> "TransactionRootMismatch", tx_id |-> 0]
                 ELSE [kind |-> "Ok", tx_id |-> 0]
    /\ pc' = "done"
    /\ UNCHANGED << block, original, i, calculated_tx_root, receipt_root,
                    calculated_receipt_root, j >>

Next ==
    \/ SkipTx
    \/ ParseError
    \/ PushTx
    \/ ConversionError
    \/ PushReceipt
    \/ CheckReceiptRoot
    \/ CheckTxRoot

Spec == Init /\ [][Next]_vars

----------------------------------------------------------------------------
(* Tampering with a block that validates: one transaction's payload, or    *)
(* one receipt of one status, is replaced and main runs again on the       *)
(* result.                                                                 *)

Validated == pc = "done" /\ result.kind = "Ok" /\ block = original

Restart ==
    /\ pc' = "tx_loop"
    /\ i' = 1
    /\ calculated_tx_root' = NewCalculator
    /\ receipt_root' = EmptySum
    /\ calculated_receipt_root' = NewCalculator
    /\ j' = 1
    /\ result' = NoResult

TamperPayload ==
    /\ Validated
    /\ \E k \in 1..Len(block.transactions) :
       \E p \in Payloads \ {block.transactions[k].raw_payload} :
          block' = [block EXCEPT !.transactions[k].raw_payload = p]
    /\ Restart
    /\ UNCHANGED original

TamperReceipt ==
    /\ Validated
    /\ \E k \in 1..Len(block.transactions) :
       \E r \in 1..Len(block.transactions[k].status.receipts) :
       \E v \in SchemaReceipts \ {block.transactions[k].status.receipts[r]} :
          block' = [block EXCEPT !.transactions[k].status.receipts[r] = v]
    /\ Restart
    /\ UNCHANGED original

NextTamper ==
    \/ Next
    \/ TamperPayload
    \/ TamperReceipt

SpecTamper == Init /\ [][NextTamper]_vars

----------------------------------------------------------------------------
(* Vocabulary of the properties.  The two statuses that carry receipts are *)
(* spelled out here, independently of HasReceipts.                         *)

Txs == block.transactions

NumTx == Len(Txs)

Statused(k) == Txs[k].status.kind \in {"SuccessStatus", "FailureStatus"}

Decodes(k) == Txs[k].raw_payload.kind # "Garbage"

IsScript(k) == Txs[k].raw_payload.kind = "Script"

\* Canonical encoding of transaction k (for a payload that decodes).
Enc(k) == [kind |-> Txs[k].raw_payload.kind,
           receipts_root |-> Txs[k].raw_payload.receipts_root,
           trailing |-> 0]

\* Every receipt of transaction k converts.
Converts(k) == \A r \in 1..Len(Txs[k].status.receipts) :
                  Txs[k].status.receipts[r] # 0

\* Canonical encodings of the first n receipts of transaction k, in order.
OwnReceiptLeaves(k, n) ==
    [r \in 1..n |-> ReceiptToBytes(TryInto(Txs[k].status.receipts[r]))]

AllOwnReceiptLeaves(k) == OwnReceiptLeaves(k, Len(Txs[k].status.receipts))

\* The embedded receipts root of Script k is the root over its receipts.
ReceiptsMatch(k) ==
    Txs[k].raw_payload.receipts_root = Root(AllOwnReceiptLeaves(k))

\* Transaction k has been pushed on the block-level calculator's loop turn:
\* the loop is past it, or inside its receipt check, or stopped there.
Pushed(k) ==
    \/ i > k
    \/ i = k /\ pc = "receipt_loop"
    \/ i = k /\ pc = "done"
             /\ result.kind \in {"ReceiptRootMismatch", "ConversionError"}

\* The encodings, in block order, of the transactions at the positions in S.
RECURSIVE EncSeq(_, _)
EncSeq(S, k) ==
    IF k > NumTx THEN << >>
    ELSE IF k \in S THEN << Enc(k) >> \o EncSeq(S, k + 1)
    ELSE EncSeq(S, k + 1)

----------------------------------------------------------------------------
(* Properties *)

\* The block-level comparison has been made.
Compared == result.kind \in {"Ok", "TransactionRootMismatch"}

\* C1: at the final comparison the block-level calculator holds one leaf per
\* transaction of the block, the encoding of a transaction whose status is
\* neither Success nor Failure included, at that transaction's position.
C1_SkippedStillAppended ==
    Compared =>
       /\ Len(calculated_tx_root) = NumTx
       /\ \A k \in 1..NumTx :
             (~Statused(k) /\ Decodes(k)) => calculated_tx_root[k] = Enc(k)

\* What the block commits to: every payload decodes, every Script with a
\* Success or Failure status has receipts that convert and hash to its
\* embedded root, and the header root is the root over all encodings.
BlockConsistent ==
    /\ \A k \in 1..NumTx : Decodes(k)
    /\ \A k \in 1..NumTx :
          (Statused(k) /\ IsScript(k)) => (Converts(k) /\ ReceiptsMatch(k))
    /\ block.transactions_root = Root(EncSeq(1..NumTx, 1))

\* C2: main returns success if and only if there is no decode or conversion
\* error, every Script's receipts root matches and the header root is the
\* root over the encodings of all the block's transactions.
C2_SuccessIffConsistent ==
    pc = "done" => (result.kind = "Ok" <=> BlockConsistent)

\* C4: a payload that does not decode is never passed by the loop, whatever
\* the status of its transaction, and a block with such a payload never
\* validates.
C4_MalformedNeverSkipped ==
    \A k \in 1..NumTx :
       ~Decodes(k) => (i <= k /\ result.kind # "Ok")

\* C8: a transaction that decodes to a kind other than Script never causes a
\* receipt-root mismatch or a conversion error, and once the loop is past it
\* its encoding is among the leaves of the block-level calculator.
C8_NonScriptAppendedUnchecked ==
    \A k \in 1..NumTx :
       (Decodes(k) /\ ~IsScript(k)) =>
          /\ ~(result.tx_id = k
               /\ result.kind \in {"ReceiptRootMismatch", "ConversionError"})
          /\ i > k =>
                \E p \in 1..Len(calculated_tx_root) :
                   calculated_tx_root[p] = Enc(k)

\* Every transaction before position n that main receipt-checks passes the
\* check: it has a Success or Failure status and is a Script whose receipts
\* convert and hash to its embedded root, or it is not checked at all.
NoMismatchBefore(n) ==
    \A k \in 1..(n - 1) :
       (Statused(k) /\ IsScript(k)) => (Converts(k) /\ ReceiptsMatch(k))

\* Number of transactions at positions 1..n with a Success or Failure status.
NumStatused(n) == Cardinality({k \in 1..n : Statused(k)})

\* C3: a receipt-root mismatch ends main at the mismatching transaction: it
\* is the first receipt-checked transaction in block order whose roots
\* differ, no later transaction has a leaf in the block-level calculator, and
\* the block-level comparison is not made.  The block-level comparison is
\* made only once the loop is past every transaction with no receipt-root
\* mismatch among them.
C3_FailFast ==
    /\ result.kind = "ReceiptRootMismatch" =>
          /\ pc = "done"
          /\ i \in 1..NumTx
          /\ result.tx_id = Txs[i].id
          /\ Statused(i) /\ IsScript(i) /\ Converts(i) /\ ~ReceiptsMatch(i)
          /\ NoMismatchBefore(i)
          /\ Len(calculated_tx_root) = NumStatused(i)
          /\ calculated_tx_root[Len(calculated_tx_root)] = Enc(i)
    /\ Compared =>
          /\ pc = "done"
          /\ i = NumTx + 1
          /\ NoMismatchBefore(NumTx + 1)
    /\ pc = "done" => ~ENABLED Next

\* Witness of C3: the second transaction's receipts root mismatches after a
\* first Script transaction passed its check with a receipt.
C3_Witness ==
    /\ result.kind = "ReceiptRootMismatch"
    /\ NumTx = 2
    /\ result.tx_id = 2
    /\ IsScript(1) /\ Statused(1) /\ Len(Txs[1].status.receipts) = 1

\* C7: a transaction with Failure status is handled as one with Success
\* status: its encoding is pushed on the block-level calculator, the loop
\* gets past it only if it decodes and, for a Script, its receipts convert
\* and hash to its embedded root; an error naming it has one of those causes;
\* and a consistent block whose statuses are all Success or Failure
\* validates.
C7_FailureLikeSuccess ==
    /\ \A k \in 1..NumTx :
          Txs[k].status.kind = "FailureStatus" =>
             /\ Pushed(k) =>
                   /\ Decodes(k)
                   /\ Len(calculated_tx_root) >= NumStatused(k)
                   /\ calculated_tx_root[NumStatused(k)] = Enc(k)
             /\ i > k => (IsScript(k) => (Converts(k) /\ ReceiptsMatch(k)))
             /\ (pc = "done" /\ result.tx_id = k) =>
                   \/ result.kind = "ParseError" /\ ~Decodes(k)
                   \/ result.kind = "ConversionError"
                         /\ IsScript(k) /\ ~Converts(k)
                   \/ result.kind = "ReceiptRootMismatch"
                         /\ IsScript(k) /\ Converts(k) /\ ~ReceiptsMatch(k)
    /\ (pc = "done" /\ BlockConsistent /\ \A k \in 1..NumTx : Statused(k))
          => result.kind = "Ok"

\* Witness of C7: a block validates that holds a Failure-status Script with
\* a receipt, next to a Success-status transaction.
C7_Witness ==
    /\ pc = "done" /\ result.kind = "Ok"
    /\ NumTx = 2
    /\ Txs[1].status.kind = "SuccessStatus"
    /\ Txs[2].status.kind = "FailureStatus"
    /\ IsScript(2) /\ Len(Txs[2].status.receipts) = 1

\* Leaves the block-level calculator must hold: the encodings, in block
\* order, of the pushed transactions that have a Success or Failure status.
ExpectedTxLeaves ==
    EncSeq({k \in 1..NumTx : Pushed(k) /\ Statused(k)}, 1)

C9_Leaves ==
    /\ calculated_tx_root = ExpectedTxLeaves
    /\ Len(calculated_tx_root) <= NumTx
    /\ pc = "receipt_loop" =>
          /\ Len(calculated_tx_root) > 0
          /\ calculated_tx_root[Len(calculated_tx_root)] = Enc(i)

C9_Step ==
    \/ calculated_tx_root' = calculated_tx_root
    \/ /\ Len(calculated_tx_root') = Len(calculated_tx_root) + 1
       /\ SubSeq(calculated_tx_root', 1, Len(calculated_tx_root))
             = calculated_tx_root
       /\ pc = "tx_loop"

\* C9: the block-level calculator is append-only and order-preserving: its
\* leaves are the encodings of transactions the loop has reached, in block
\* order, at most one per transaction, pushed before the transaction's
\* receipt check; every step keeps the leaves or appends one leaf.
C9_AppendOnlyInOrder == []C9_Leaves /\ [][C9_Step]_vars

\* Witness of C9: two leaves are held while the second transaction's
\* receipts are being checked.
C9_Witness ==
    /\ pc = "receipt_loop"
    /\ i = 2
    /\ Len(calculated_tx_root) = 2
    /\ calculated_tx_root[1] # calculated_tx_root[2]

----------------------------------------------------------------------------
(* Properties of tampering (SpecTamper).  A state with block # original is *)
(* a run of main on a block that differs in one payload or one receipt     *)
(* from a block that validated.                                            *)

OrigTxs == original.transactions

\* Canonical encoding of transaction k of the original block.
OrigEnc(k) == [kind |-> OrigTxs[k].raw_payload.kind,
               receipts_root |-> OrigTxs[k].raw_payload.receipts_root,
               trailing |-> 0]

\* The payload of transaction k was replaced by one that decodes, to another
\* transaction than the original payload decoded to.
PayloadTampered(k) ==
    /\ Txs[k].raw_payload # OrigTxs[k].raw_payload
    /\ Decodes(k)
    /\ OrigTxs[k].raw_payload.kind # "Garbage"
    /\ Enc(k) # OrigEnc(k)

\* C5: after the payload of one transaction of a validating block is changed
\* to one with another canonical encoding, main ends in a transaction-root
\* mismatch.
C5_PayloadTamperDetected ==
    \A k \in 1..NumTx :
       (pc = "done" /\ PayloadTampered(k)) =>
          result.kind = "TransactionRootMismatch"

\* A receipt of transaction k was replaced.
ReceiptTampered(k) ==
    Txs[k].status.receipts # OrigTxs[k].status.receipts

\* A receipt of transaction k was replaced by one that converts, to a
\* receipt with another canonical encoding.
ReceiptEncodingTampered(k) ==
    \E r \in 1..Len(Txs[k].status.receipts) :
       /\ Txs[k].status.receipts[r] # OrigTxs[k].status.receipts[r]
       /\ Txs[k].status.receipts[r] # 0
       /\ ReceiptToBytes(TryInto(Txs[k].status.receipts[r]))
             # ReceiptToBytes(TryInto(OrigTxs[k].status.receipts[r]))

\* C6 as claimed: after one receipt of any transaction of a validating block
\* is changed, main ends in a receipt-root mismatch naming that transaction.
C6_AnyReceiptTamperDetected ==
    \A k \in 1..NumTx :
       (pc = "done" /\ ReceiptTampered(k)) =>
          result = [kind |-> "ReceiptRootMismatch", tx_id |-> Txs[k].id]

\* C6 as amended: after one receipt of a Script transaction of a validating
\* block is changed to one that converts to a receipt with another canonical
\* encoding, main ends in a receipt-root mismatch naming that transaction.
C6_ScriptReceiptTamperDetected ==
    \A k \in 1..NumTx :
       (pc = "done" /\ IsScript(k) /\ ReceiptEncodingTampered(k)) =>
          result = [kind |-> "ReceiptRootMismatch", tx_id |-> Txs[k].id]

\* Witness of C6: the receipt of the second transaction, a Script, of a
\* validating block of two Scripts was changed and main has ended.
C6_Witness ==
    /\ pc = "done"
    /\ NumTx = 2
    /\ IsScript(1) /\ IsScript(2)
    /\ ReceiptEncodingTampered(2)
    /\ result = [kind |-> "ReceiptRootMismatch", tx_id |-> 2]

====
